---- MODULE Spec2Model ----
(***************************************************************************)
(* Transaction-status store of the Cardano smart escrow application:       *)
(* the SQLite tables of src/lib/db.ts and the four network handlers that   *)
(* write them (lock route, unlock route, submit route, Blockfrost webhook).*)
(* Every route awaits one external call (builder or submitter) between     *)
(* reading its request and writing the store; better-sqlite3 is            *)
(* synchronous, so the code after the await runs as one step.              *)
(***************************************************************************)
EXTENDS Integers, Sequences, FiniteSets, TLC

VARIABLES
    wallets,        \* table wallets(address PRIMARY KEY): a set of addresses
    transactions,   \* table transactions: a set of rows
    clock,          \* Date.now()
    inflight,       \* route handlers suspended at their await of the external call
    last,           \* history: the handler step taken last (route, key, row before, response)
    stage,          \* history: progress of the README scenario on ScenarioTx
    changeAddressBech32,  \* the browser: the connected wallet's address (absent while disconnected)
    query,          \* the browser: the react-query entry ['transactions', address]
    hasPendingTx,   \* the browser: state of usePollingTransactions
    ops,            \* the browser: state of useTransactionOperations and its running flow
    parked          \* the browser: the other unlock flows of the view, suspended at an await

server == <<wallets, transactions, clock, inflight, last, stage>>

browser == <<changeAddressBech32, query, hasPendingTx, ops, parked>>

vars == <<wallets, transactions, clock, inflight, last, stage,
          changeAddressBech32, query, hasPendingTx, ops, parked>>

----------------------------------------------------------------------------
(* Bounds of the model *)

MaxClock == 1
MaxInFlight == 1
MaxBatch == 1
MaxParked == 1

Hashes == {"T1", "T2"}
Wallets == {"W1", "W2"}
Quantities == {"10000000", "5000000"}

(* JSON values: an absent or null field is the empty set, a present one {v} *)
Absent == {}
Val(o) == CHOOSE v \in o : TRUE
Falsy(o) == o = Absent

----------------------------------------------------------------------------
(* src/lib/types.ts *)

TX_STATUS == [PENDING |-> "pending", SIGN_LOCK |-> "signLock",
              SIGN_UNLOCK |-> "signUnlock", CONFIRMED |-> "confirmed",
              UNLOCKED |-> "unlocked"]

TransactionStatus == {TX_STATUS.PENDING, TX_STATUS.SIGN_LOCK, TX_STATUS.SIGN_UNLOCK,
                      TX_STATUS.CONFIRMED, TX_STATUS.UNLOCKED}

(* Number(quantity) of the decimal strings the model uses.  The routes     *)
(* apply Number to body.amount, which the client sends as a JSON number    *)
(* and Number returns as it is.                                             *)
Number(q) == CASE q = "10000000" -> 10000000
               [] q = "5000000" -> 5000000
               [] q = "7000000" -> 7000000

Amounts == {Number(q) : q \in Quantities}

Transaction == [txHash : Hashes, wallet : Wallets, amount : Amounts,
                status : TransactionStatus, timestamp : 0..MaxClock]

----------------------------------------------------------------------------
(* src/lib/db.ts *)

(* variant of upsertWallet that writes nothing *)
upsertWallet_Skipped(ws, address) == ws

(* INSERT OR IGNORE INTO wallets *)
upsertWallet(ws, address) == ws \cup {address}

(* variant of upsertTx without OR REPLACE: the row that was there stays *)
upsertTx_InsertOnly(txs, txHash, wallet, amount, status, now) ==
    txs \cup {[txHash |-> txHash, wallet |-> wallet, amount |-> amount,
               status |-> status, timestamp |-> now]}

(* variant of upsertTx for a table where wallet is UNIQUE too: OR REPLACE   *)
(* then deletes the other rows of the wallet                                *)
upsertTx_UniqueWallet(txs, txHash, wallet, amount, status, now) ==
    {r \in txs : r.txHash # txHash /\ r.wallet # wallet}
        \cup {[txHash |-> txHash, wallet |-> wallet, amount |-> amount,
               status |-> status, timestamp |-> now]}

(* INSERT OR REPLACE INTO transactions: txHash is the only key *)
upsertTx(txs, txHash, wallet, amount, status, now) ==
    {r \in txs : r.txHash # txHash}
        \cup {[txHash |-> txHash, wallet |-> wallet, amount |-> amount,
               status |-> status, timestamp |-> now]}

(* variant of updateTxStatus that leaves the timestamp *)
updateTxStatus_NoStamp(txs, txHash, status, now) ==
    {IF r.txHash = txHash THEN [r EXCEPT !.status = status] ELSE r : r \in txs}

(* variant of updateTxStatus without the WHERE clause *)
updateTxStatus_AllRows(txs, txHash, status, now) ==
    {[r EXCEPT !.status = status, !.timestamp = now] : r \in txs}

(* UPDATE transactions SET status = ?, timestamp = ? WHERE txHash = ? *)
updateTxStatus(txs, txHash, status, now) ==
    {IF r.txHash = txHash THEN [r EXCEPT !.status = status, !.timestamp = now] ELSE r
        : r \in txs}

(* variant of getTxsByWalletRows without the WHERE clause *)
getTxsByWalletRows_AnyWallet(txs, wallet) == txs

(* SELECT * FROM transactions WHERE wallet = ? *)
getTxsByWalletRows(txs, wallet) == {r \in txs : r.wallet = wallet}

(* rows of a key, and the status stored for it ("none" when there is no row) *)
RowsOf(txs, txHash) == {r \in txs : r.txHash = txHash}
StatusOf(txs, txHash) ==
    IF RowsOf(txs, txHash) = {} THEN "none"
    ELSE (CHOOSE r \in RowsOf(txs, txHash) : TRUE).status

----------------------------------------------------------------------------
(* Requests.  The builder and the submitter are external collaborators:     *)
(* their answers are inputs of the step that resumes after the await.       *)

LockBody(changeAddress, amount, ownerKeyHash) ==
    [changeAddress |-> changeAddress, amount |-> amount, ownerKeyHash |-> ownerKeyHash]

(* every complete body, and one body for each field that can be missing *)
LockBodies ==
    {LockBody({w}, {a}, {"K1"}) : w \in Wallets, a \in Amounts}
    \cup {LockBody(Absent, {5000000}, {"K1"}), LockBody({"W1"}, Absent, {"K1"}),
          LockBody({"W1"}, {5000000}, Absent)}

UnlockBody(txHash, changeAddress, ownerKeyHash, amount) ==
    [txHash |-> txHash, changeAddress |-> changeAddress,
     ownerKeyHash |-> ownerKeyHash, amount |-> amount]

UnlockBodies ==
    {UnlockBody({h}, {w}, {"K1"}, {a}) : h \in Hashes, w \in Wallets, a \in Amounts}
    \cup {UnlockBody(Absent, {"W1"}, {"K1"}, {5000000}),
          UnlockBody({"T1"}, Absent, {"K1"}, {5000000}),
          UnlockBody({"T1"}, {"W1"}, Absent, {5000000}),
          UnlockBody({"T1"}, {"W1"}, {"K1"}, Absent)}

(* complete and signature are opaque strings; type is the string the       *)
(* client sends, "pending" standing for any string that is neither          *)
(* "signLock" nor "signUnlock"                                              *)
SubmitBody(complete, signature, type, originalTxHash) ==
    [complete |-> complete, signature |-> signature, type |-> type,
     originalTxHash |-> originalTxHash]

SubmitBodies ==
    {SubmitBody({"cbor"}, {"S1"}, {TX_STATUS.SIGN_LOCK}, Absent)}
    \cup {SubmitBody({"cbor"}, {"S1"}, {TX_STATUS.SIGN_UNLOCK}, {h}) : h \in Hashes}
    \cup {SubmitBody(Absent, {"S1"}, {TX_STATUS.SIGN_LOCK}, Absent),
          SubmitBody({"cbor"}, Absent, {TX_STATUS.SIGN_LOCK}, Absent),
          SubmitBody({"cbor"}, {"S1"}, {TX_STATUS.PENDING}, Absent),
          SubmitBody({"cbor"}, {"S1"}, Absent, Absent),
          SubmitBody({"cbor"}, {"S1"}, {TX_STATUS.SIGN_UNLOCK}, Absent)}

(* lockFunds answers {txHash, complete, error} or throws *)
LockResult(txHash, complete, error, throws) ==
    [txHash |-> txHash, complete |-> complete, error |-> error, throws |-> throws]
LockResults ==
    {LockResult({h}, {"cbor"}, Absent, FALSE) : h \in Hashes}
    \cup {LockResult(Absent, Absent, {"error"}, FALSE),
          LockResult({"T1"}, Absent, Absent, FALSE),
          LockResult(Absent, Absent, Absent, TRUE)}

(* unlockFunds answers {complete, error} or throws *)
UnlockResult(complete, error, throws) ==
    [complete |-> complete, error |-> error, throws |-> throws]
UnlockResults ==
    {UnlockResult({"cbor"}, Absent, FALSE), UnlockResult(Absent, {"error"}, FALSE),
     UnlockResult(Absent, Absent, FALSE), UnlockResult(Absent, Absent, TRUE)}

(* submitTransaction answers {txHash}, the hash of what it submitted, or throws *)
SubmitResult(txHash, throws) == [txHash |-> txHash, throws |-> throws]
SubmitResults ==
    {SubmitResult({h}, FALSE) : h \in Hashes} \cup {SubmitResult(Absent, TRUE)}

(* History: what a finished handler run leaves behind.  op is the route,    *)
(* http the response status, txHash the key it wrote (Absent if none),      *)
(* before the status that key had before the write, result the txHash of    *)
(* the response body.                                                       *)
Done(op, http, txHash, before, result) ==
    [op |-> op, http |-> http, txHash |-> txHash, before |-> before, result |-> result]

Reply(op, http) == Done(op, http, Absent, "none", Absent)

Wrote(op, txs, txHash, result) ==
    Done(op, 200, {txHash}, StatusOf(txs, txHash), result)

----------------------------------------------------------------------------
(* Blockfrost webhook events *)

Event(tx, inputs, outputs) == [tx |-> tx, inputs |-> inputs, outputs |-> outputs]

(* variant of EventWallet that reads the last input *)
EventWallet_LastInput(event) ==
    IF Len(event.inputs) = 0 THEN Absent
    ELSE event.inputs[Len(event.inputs)].address

(* event.inputs?.[0]?.address *)
EventWallet(event) ==
    IF Len(event.inputs) = 0 THEN Absent ELSE event.inputs[1].address

(* event.outputs?.[0]?.amount.find(a => a.unit === "lovelace")?.quantity *)
EventAmount(event) ==
    IF Len(event.outputs) = 0 THEN Absent
    ELSE LET amount == event.outputs[1].amount
             idx == {i \in 1..Len(amount) : amount[i].unit = "lovelace"}
         IN IF idx = {} THEN Absent
            ELSE {amount[CHOOSE i \in idx : \A j \in idx : i <= j].quantity}

(* event.tx.hash throws when the event has no tx *)
EventThrows(event) == event.tx = Absent

WellFormedEvents ==
    {Event({[hash |-> h]}, <<[address |-> {w}]>>,
           <<[amount |-> <<[unit |-> "lovelace", quantity |-> q]>>]>>)
        : h \in Hashes, w \in Wallets, q \in Quantities}

MalformedEvents ==
    {Event({[hash |-> h]}, <<>>,
           <<[amount |-> <<[unit |-> "lovelace", quantity |-> "5000000"]>>]>>)
        : h \in {"T1"}}
    \cup {Event({[hash |-> h]}, <<[address |-> {"W1"}]>>,
                <<[amount |-> <<[unit |-> "token", quantity |-> "5000000"]>>]>>)
        : h \in {"T1"}}
    \cup {Event(Absent, <<[address |-> {"W1"}]>>,
                <<[amount |-> <<[unit |-> "lovelace", quantity |-> "5000000"]>>]>>)}

Events == WellFormedEvents \cup MalformedEvents

(* an event of a transaction with two inputs and two outputs, whose first  *)
(* output carries a token before its lovelace and a second lovelace entry   *)
RichEvent(h, first, second, q) ==
    Event({[hash |-> h]},
          <<[address |-> {first}], [address |-> {second}]>>,
          <<[amount |-> <<[unit |-> "token", quantity |-> q],
                          [unit |-> "lovelace", quantity |-> "7000000"],
                          [unit |-> "lovelace", quantity |-> q]>>],
            [amount |-> <<[unit |-> "lovelace", quantity |-> q]>>]>>)

RichEvents ==
    {RichEvent(h, first, second, q) :
        h \in Hashes, first \in Wallets, second \in Wallets, q \in Quantities}

Payloads == UNION {[1..n -> Events] : n \in 0..MaxBatch}

(* request.json() of the webhook: a body that cannot be parsed, or has no   *)
(* payload to iterate, has no payload here                                  *)
WebhookBody(payload) == [payload |-> payload]

WebhookBodies == {WebhookBody(Absent)} \cup {WebhookBody({p}) : p \in Payloads}

(* the for loop of the webhook from event i on: the store it leaves and     *)
(* whether something threw.  The catch is outside the loop, so a throw ends *)
(* the batch.  failAt is the index of the event whose upsertTx throws a     *)
(* storage error (0: none does); its upsertWallet has run by then.          *)
RECURSIVE WebhookFor(_, _, _, _, _)
WebhookFor(db, payload, i, now, failAt) ==
    IF i > Len(payload)
    THEN [wallets |-> db.wallets, transactions |-> db.transactions, threw |-> FALSE]
    ELSE LET event == payload[i]
             wallet == EventWallet(event)
             amount == EventAmount(event)
         IN IF EventThrows(event)
            THEN [wallets |-> db.wallets, transactions |-> db.transactions,
                  threw |-> TRUE]
            ELSE IF ~Falsy(wallet) /\ ~Falsy(amount)
                 THEN IF i = failAt
                      THEN [wallets |-> upsertWallet(db.wallets, Val(wallet)),
                            transactions |-> db.transactions, threw |-> TRUE]
                      ELSE WebhookFor(
                             [wallets |-> upsertWallet(db.wallets, Val(wallet)),
                              transactions |->
                                 upsertTx(db.transactions, Val(event.tx).hash,
                                          Val(wallet), Number(Val(amount)),
                                          TX_STATUS.CONFIRMED, now)],
                             payload, i + 1, now, failAt)
                 ELSE WebhookFor(db, payload, i + 1, now, failAt)

(* the loop when the store does not fail: the store after the batch *)
WebhookLoop(db, payload, i, now) ==
    LET run == WebhookFor(db, payload, i, now, 0)
    IN [wallets |-> run.wallets, transactions |-> run.transactions]

(* variant of WebhookHttp that answers 500 when the handler caught an error *)
WebhookHttp_Propagates(threw) == IF threw THEN 500 ELSE 200

(* return NextResponse.json({ ok: true }) after the try/catch *)
WebhookHttp(threw) == 200

----------------------------------------------------------------------------
Init ==
    /\ wallets = {}
    /\ transactions = {}
    /\ clock = 0
    /\ inflight = {}
    /\ last = Reply("init", 0)
    /\ stage = 0
    /\ changeAddressBech32 = Absent
    /\ query = [data |-> Absent, fetching |-> FALSE, invalidated |-> FALSE]
    /\ hasPendingTx = FALSE
    /\ ops = [processing |-> Absent, error |-> Absent, pc |-> "idle", kind |-> "none",
              txHash |-> Absent, amount |-> 0, pre |-> "none"]
    /\ parked = {}

(* History: the scenario of the README and of the specification, on one    *)
(* transaction.  stage counts the scenario's steps taken so far in a row;   *)
(* any other handler reply starts over.                                     *)
ScenarioTx == "T1"
ScenarioUnlockTx == "T2"
ScenarioWallet == "W1"
ScenarioQuantity == "10000000"
ScenarioEvent ==
    Event({[hash |-> ScenarioTx]}, <<[address |-> {ScenarioWallet}]>>,
          <<[amount |-> <<[unit |-> "lovelace", quantity |-> ScenarioQuantity]>>]>>)

StageAfter(step) ==
    CASE step = "lockBuilt" -> 1
      [] step = "lockSubmitted" /\ stage = 1 -> 2
      [] step = "webhook" /\ stage \in {2, 3} -> stage + 1
      [] step = "unlockBuilt" /\ stage = 4 -> 5
      [] step = "unlockSubmitted" /\ stage = 5 -> 6
      [] step = "webhook" /\ stage = 6 -> 7
      [] OTHER -> 0

Tick ==
    /\ clock < MaxClock
    /\ clock' = clock + 1
    /\ UNCHANGED <<wallets, transactions, inflight, last, stage>>

Db == [wallets |-> wallets, transactions |-> transactions]

----------------------------------------------------------------------------
(* POST /api/escrow/lock *)

LockInvalid(body) ==
    Falsy(body.changeAddress) \/ body.amount = Absent \/ Falsy(body.ownerKeyHash)

(* variant of LockBuildFailed that accepts an answer without a complete    *)
(* transaction                                                              *)
LockBuildFailed_IgnoresComplete(r) == r.throws \/ ~Falsy(r.error) \/ Falsy(r.txHash)

LockBuildFailed(r) == r.throws \/ ~Falsy(r.error) \/ Falsy(r.txHash) \/ Falsy(r.complete)

(* the two writes after a successful build *)
LockWrites(db, body, r, now) ==
    [wallets |-> upsertWallet(db.wallets, Val(body.changeAddress)),
     transactions |-> upsertTx(db.transactions, Val(r.txHash), Val(body.changeAddress),
                               Val(body.amount), TX_STATUS.SIGN_LOCK, now)]

LockReject ==
    /\ last' = Reply("lock", 400)
    /\ stage' = StageAfter("other")
    /\ UNCHANGED <<wallets, transactions>>

(* the handler from the answer of lockFunds to its response *)
LockAfterAwait(body, r) ==
    IF LockBuildFailed(r)
    THEN /\ last' = Reply("lock", 500)
         /\ stage' = StageAfter("other")
         /\ UNCHANGED <<wallets, transactions>>
    ELSE LET db == LockWrites(Db, body, r, clock)
         IN /\ wallets' = db.wallets
            /\ transactions' = db.transactions
            /\ last' = Wrote("lock", transactions, Val(r.txHash), r.txHash)
            /\ stage' = StageAfter(
                  IF r.txHash = {ScenarioTx} /\ body.changeAddress = {ScenarioWallet}
                     /\ body.amount = {Number(ScenarioQuantity)}
                  THEN "lockBuilt" ELSE "other")

(* one request served from start to end *)
LockRoute(body) ==
    /\ IF LockInvalid(body) THEN LockReject
       ELSE \E r \in LockResults : LockAfterAwait(body, r)
    /\ UNCHANGED <<clock, inflight>>

(* the same handler as two steps around its await *)
LockPOST(body) ==
    IF LockInvalid(body)
    THEN LockReject /\ UNCHANGED <<clock, inflight>>
    ELSE /\ Cardinality(inflight) < MaxInFlight
         /\ inflight' = inflight \cup {[route |-> "lock", body |-> body]}
         /\ UNCHANGED <<wallets, transactions, clock, last, stage>>

LockPOSTResume(req, r) ==
    /\ req \in inflight /\ req.route = "lock"
    /\ inflight' = inflight \ {req}
    /\ LockAfterAwait(req.body, r)
    /\ UNCHANGED clock

----------------------------------------------------------------------------
(* POST /api/escrow/unlock *)

UnlockInvalid(body) ==
    Falsy(body.txHash) \/ Falsy(body.changeAddress) \/ Falsy(body.ownerKeyHash)
        \/ body.amount = Absent

UnlockBuildFailed(r) == r.throws \/ ~Falsy(r.error) \/ Falsy(r.complete)

UnlockWrites(db, body, now) ==
    [wallets |-> upsertWallet(db.wallets, Val(body.changeAddress)),
     transactions |-> upsertTx(db.transactions, Val(body.txHash), Val(body.changeAddress),
                               Val(body.amount), TX_STATUS.PENDING, now)]

UnlockReject ==
    /\ last' = Reply("unlock", 400)
    /\ stage' = StageAfter("other")
    /\ UNCHANGED <<wallets, transactions>>

UnlockAfterAwait(body, r) ==
    IF UnlockBuildFailed(r)
    THEN /\ last' = Reply("unlock", 500)
         /\ stage' = StageAfter("other")
         /\ UNCHANGED <<wallets, transactions>>
    ELSE LET db == UnlockWrites(Db, body, clock)
         IN /\ wallets' = db.wallets
            /\ transactions' = db.transactions
            /\ last' = Wrote("unlock", transactions, Val(body.txHash), Absent)
            /\ stage' = StageAfter(
                  IF body.txHash = {ScenarioTx} /\ body.changeAddress = {ScenarioWallet}
                     /\ body.amount = {Number(ScenarioQuantity)}
                  THEN "unlockBuilt" ELSE "other")

UnlockRoute(body) ==
    /\ IF UnlockInvalid(body) THEN UnlockReject
       ELSE \E r \in UnlockResults : UnlockAfterAwait(body, r)
    /\ UNCHANGED <<clock, inflight>>

UnlockPOST(body) ==
    IF UnlockInvalid(body)
    THEN UnlockReject /\ UNCHANGED <<clock, inflight>>
    ELSE /\ Cardinality(inflight) < MaxInFlight
         /\ inflight' = inflight \cup {[route |-> "unlock", body |-> body]}
         /\ UNCHANGED <<wallets, transactions, clock, last, stage>>

UnlockPOSTResume(req, r) ==
    /\ req \in inflight /\ req.route = "unlock"
    /\ inflight' = inflight \ {req}
    /\ UnlockAfterAwait(req.body, r)
    /\ UNCHANGED clock

----------------------------------------------------------------------------
(* POST /api/escrow/submit *)

(* variant of SubmitInvalid without the check of type *)
SubmitInvalid_AnyType(body) ==
    \/ Falsy(body.complete) \/ Falsy(body.signature)
    \/ (body.type = {TX_STATUS.SIGN_UNLOCK} /\ Falsy(body.originalTxHash))

SubmitInvalid(body) ==
    \/ Falsy(body.complete) \/ Falsy(body.signature)
    \/ ~(body.type = {TX_STATUS.SIGN_LOCK} \/ body.type = {TX_STATUS.SIGN_UNLOCK})
    \/ (body.type = {TX_STATUS.SIGN_UNLOCK} /\ Falsy(body.originalTxHash))

(* variant of txHashToUpdate that always takes the submitted transaction's hash *)
txHashToUpdate_Submitted(body, result) == result.txHash

txHashToUpdate(body, result) ==
    IF body.type = {TX_STATUS.SIGN_UNLOCK} THEN body.originalTxHash ELSE result.txHash

(* variant of SubmitStatus whose lock submit writes CONFIRMED *)
SubmitStatus_Confirmed(body) ==
    IF body.type = {TX_STATUS.SIGN_LOCK} THEN TX_STATUS.CONFIRMED ELSE TX_STATUS.UNLOCKED

SubmitStatus(body) ==
    IF body.type = {TX_STATUS.SIGN_LOCK} THEN TX_STATUS.PENDING ELSE TX_STATUS.UNLOCKED

(* NextResponse.json({ txHash: result.txHash }) *)
SubmitResponse(result) == result.txHash

SubmitOp(body) ==
    IF body.type = {TX_STATUS.SIGN_LOCK} THEN "submitLock" ELSE "submitUnlock"

SubmitWrites(db, body, result, now) ==
    [wallets |-> db.wallets,
     transactions |-> updateTxStatus(db.transactions, Val(txHashToUpdate(body, result)),
                                     SubmitStatus(body), now)]

SubmitReject ==
    /\ last' = Reply("submit", 400)
    /\ stage' = StageAfter("other")
    /\ UNCHANGED <<wallets, transactions>>

(* variant of SubmitAfterAwait whose status write for an unlock does not    *)
(* wait for the submitter                                                   *)
SubmitAfterAwait_WritesFirst(body, result) ==
    IF result.throws
    THEN /\ wallets' = wallets
         /\ transactions' =
                IF body.type = {TX_STATUS.SIGN_UNLOCK}
                THEN updateTxStatus(transactions, Val(body.originalTxHash),
                                    TX_STATUS.UNLOCKED, clock)
                ELSE transactions
         /\ last' = Reply("submit", 500)
         /\ stage' = StageAfter("other")
    ELSE LET db == SubmitWrites(Db, body, result, clock)
             key == Val(txHashToUpdate(body, result))
         IN /\ wallets' = db.wallets
            /\ transactions' = db.transactions
            /\ last' = Wrote(SubmitOp(body), transactions, key, SubmitResponse(result))
            /\ stage' = StageAfter("other")

SubmitAfterAwait(body, result) ==
    IF result.throws
    THEN /\ last' = Reply("submit", 500)
         /\ stage' = StageAfter("other")
         /\ UNCHANGED <<wallets, transactions>>
    ELSE LET db == SubmitWrites(Db, body, result, clock)
             key == Val(txHashToUpdate(body, result))
         IN /\ wallets' = db.wallets
            /\ transactions' = db.transactions
            /\ last' = Wrote(SubmitOp(body), transactions, key, SubmitResponse(result))
            /\ stage' = StageAfter(
                  IF key = ScenarioTx /\ body.type = {TX_STATUS.SIGN_LOCK}
                  THEN "lockSubmitted"
                  ELSE IF key = ScenarioTx /\ body.type = {TX_STATUS.SIGN_UNLOCK}
                          /\ result.txHash = {ScenarioUnlockTx}
                       THEN "unlockSubmitted" ELSE "other")

SubmitRoute(body) ==
    /\ IF SubmitInvalid(body) THEN SubmitReject
       ELSE \E r \in SubmitResults : SubmitAfterAwait(body, r)
    /\ UNCHANGED <<clock, inflight>>

SubmitPOST(body) ==
    IF SubmitInvalid(body)
    THEN SubmitReject /\ UNCHANGED <<clock, inflight>>
    ELSE /\ Cardinality(inflight) < MaxInFlight
         /\ inflight' = inflight \cup {[route |-> "submit", body |-> body]}
         /\ UNCHANGED <<wallets, transactions, clock, last, stage>>

SubmitPOSTResume(req, result) ==
    /\ req \in inflight /\ req.route = "submit"
    /\ inflight' = inflight \ {req}
    /\ SubmitAfterAwait(req.body, result)
    /\ UNCHANGED clock

----------------------------------------------------------------------------
(* GET /api/escrow/transactions?wallet=... *)

TransactionsInvalid(wallet) == Falsy(wallet)

(* the response: 400 without a wallet, else the rows of getTxsByWallet *)
TransactionsResponse(txs, wallet) ==
    IF TransactionsInvalid(wallet) THEN [http |-> 400, rows |-> {}]
    ELSE [http |-> 200, rows |-> getTxsByWalletRows(txs, Val(wallet))]

TransactionsGET(wallet) ==
    /\ last' = Reply("transactions", TransactionsResponse(transactions, wallet).http)
    /\ UNCHANGED <<wallets, transactions, clock, inflight, stage>>

----------------------------------------------------------------------------
(* POST /api/webhooks/blockfrost *)

(* the events of a payload whose upsertTx ran *)
RECURSIVE Applied(_, _, _)
Applied(payload, i, failAt) ==
    IF i > Len(payload) \/ EventThrows(payload[i]) THEN <<>>
    ELSE IF ~Falsy(EventWallet(payload[i])) /\ ~Falsy(EventAmount(payload[i]))
         THEN IF i = failAt THEN <<>>
              ELSE <<payload[i]>> \o Applied(payload, i + 1, failAt)
         ELSE Applied(payload, i + 1, failAt)

WebhookPOST(body, failAt) ==
    IF Falsy(body.payload)
    THEN /\ last' = Reply("webhook", WebhookHttp(TRUE))
         /\ stage' = StageAfter("other")
         /\ UNCHANGED <<wallets, transactions, clock, inflight>>
    ELSE LET payload == Val(body.payload)
             run == WebhookFor(Db, payload, 1, clock, failAt)
             applied == Applied(payload, 1, failAt)
         IN /\ wallets' = run.wallets
            /\ transactions' = run.transactions
            /\ last' = IF applied = <<>> THEN Reply("webhook", WebhookHttp(run.threw))
                       ELSE Done("webhook", WebhookHttp(run.threw),
                                 {Val(applied[Len(applied)].tx).hash},
                                 StatusOf(transactions,
                                          Val(applied[Len(applied)].tx).hash),
                                 Absent)
            /\ stage' = StageAfter(IF payload = <<ScenarioEvent>> /\ failAt = 0
                                   THEN "webhook" ELSE "other")
            /\ UNCHANGED <<clock, inflight>>

----------------------------------------------------------------------------
(* A handler that stops between its two writes: upsertTx throws a storage   *)
(* error (the route's catch answers 500) or the process dies after          *)
(* upsertWallet has run.  The webhook's case is failAt of WebhookPOST.      *)
(* The history keeps the key whose write did not happen.                    *)

(* variant of LockStorageFailure for a route that writes the transaction    *)
(* before the wallet                                                        *)
LockStorageFailure_TxFirst(body, r) ==
    /\ ~LockInvalid(body) /\ ~LockBuildFailed(r)
    /\ wallets' = wallets
    /\ transactions' = upsertTx(transactions, Val(r.txHash), Val(body.changeAddress),
                                Val(body.amount), TX_STATUS.SIGN_LOCK, clock)
    /\ last' = Done("lock", 500, r.txHash, StatusOf(transactions, Val(r.txHash)), Absent)
    /\ stage' = StageAfter("other")
    /\ UNCHANGED <<clock, inflight>>

LockStorageFailure(body, r) ==
    /\ ~LockInvalid(body) /\ ~LockBuildFailed(r)
    /\ wallets' = upsertWallet(wallets, Val(body.changeAddress))
    /\ transactions' = transactions
    /\ last' = Done("lock", 500, r.txHash, StatusOf(transactions, Val(r.txHash)), Absent)
    /\ stage' = StageAfter("other")
    /\ UNCHANGED <<clock, inflight>>

UnlockStorageFailure(body, r) ==
    /\ ~UnlockInvalid(body) /\ ~UnlockBuildFailed(r)
    /\ wallets' = upsertWallet(wallets, Val(body.changeAddress))
    /\ transactions' = transactions
    /\ last' = Done("unlock", 500, body.txHash,
                    StatusOf(transactions, Val(body.txHash)), Absent)
    /\ stage' = StageAfter("other")
    /\ UNCHANGED <<clock, inflight>>

----------------------------------------------------------------------------
(* The browser: src/hooks/useTransactions.ts as used by MyTransactions and  *)
(* LockFundsForm.  One flow (lockFunds or unlockFunds) runs at a time here: *)
(* a flow touches the query only in its last step, so flows that overlap    *)
(* leave the query as the same flows one after the other do.                *)

AdaAmounts == {10}

(* getTxsByWallet: the rows of the wallet ORDER BY timestamp DESC, rows of  *)
(* one timestamp in either order                                            *)
getTxsByWallet(txs, wallet) ==
    LET rows == getTxsByWalletRows(txs, wallet)
        n == Cardinality(rows)
    IN {list \in [1..n -> rows] :
            /\ \A i \in 1..n, j \in 1..n : i # j => list[i] # list[j]
            /\ \A i \in 1..n, j \in 1..n :
                  i < j => list[i].timestamp >= list[j].timestamp}

(* query.data.some(tx => tx.status === TX_STATUS.PENDING) *)
isPending(data) == \E i \in 1..Len(data) : data[i].status = TX_STATUS.PENDING

(* variant of refetchInterval that polls whenever a wallet is connected *)
refetchInterval_Always(wallet, pending) == IF ~Falsy(wallet) THEN 5000 ELSE 0

(* refetchInterval: wallet && hasPendingTx ? 5000 : false (0 here) *)
refetchInterval(wallet, pending) == IF ~Falsy(wallet) /\ pending THEN 5000 ELSE 0

(* variant of setQueryData that prepends the new transaction without       *)
(* looking for an entry of the txHash                                       *)
setQueryData_AlwaysPrepend(old, wallet, txHash, newStatus, newTransaction, now) ==
    IF Falsy(old) THEN <<>>
    ELSE IF ~Falsy(newTransaction)
         THEN <<[txHash |-> txHash, wallet |-> wallet,
                 amount |-> Val(newTransaction).amount,
                 status |-> newStatus,
                 timestamp |-> Val(newTransaction).timestamp]>> \o Val(old)
         ELSE [i \in 1..Len(Val(old)) |->
                 IF Val(old)[i].txHash = txHash
                 THEN [Val(old)[i] EXCEPT !.status = newStatus] ELSE Val(old)[i]]

(* the callback of queryClient.setQueryData in useTransactionUpdater: old   *)
(* is the cached list if there is one, newTransaction the optional third    *)
(* argument (amount || 0 is the amount; timestamp || Date.now() is now for  *)
(* a timestamp of 0)                                                        *)
setQueryData(old, wallet, txHash, newStatus, newTransaction, now) ==
    IF Falsy(old) THEN <<>>
    ELSE LET list == Val(old)
         IN IF \E i \in 1..Len(list) : list[i].txHash = txHash
            THEN [i \in 1..Len(list) |->
                    IF list[i].txHash = txHash
                    THEN [list[i] EXCEPT !.status = newStatus] ELSE list[i]]
            ELSE IF ~Falsy(newTransaction)
                 THEN <<[txHash |-> txHash, wallet |-> wallet,
                         amount |-> Val(newTransaction).amount,
                         status |-> newStatus,
                         timestamp |->
                            IF Val(newTransaction).timestamp = 0 THEN now
                            ELSE Val(newTransaction).timestamp]>> \o list
                 ELSE list

(* variant of updateTransaction that leaves the query valid *)
updateTransaction_NoInvalidate(q, wallet, txHash, newStatus, newTransaction, now) ==
    IF Falsy(wallet) THEN q
    ELSE [q EXCEPT !.data = {setQueryData(q.data, Val(wallet), txHash, newStatus,
                                          newTransaction, now)}]

(* updateTransaction: the function useTransactionUpdater returns; it sets   *)
(* the cached list and invalidates the query                                *)
updateTransaction(q, wallet, txHash, newStatus, newTransaction, now) ==
    IF Falsy(wallet) THEN q
    ELSE [q EXCEPT !.data = {setQueryData(q.data, Val(wallet), txHash, newStatus,
                                          newTransaction, now)},
                   !.invalidated = TRUE]

(* useState(null) of processing and error, and no flow running *)
OpsIdle == [processing |-> Absent, error |-> Absent, pc |-> "idle", kind |-> "none",
            txHash |-> Absent, amount |-> 0, pre |-> "none"]

(* the user connects the wallet *)
Connect ==
    /\ changeAddressBech32 = Absent
    /\ changeAddressBech32' = {ScenarioWallet}
    /\ UNCHANGED <<wallets, transactions, clock, inflight, last, stage,
                   query, hasPendingTx, ops, parked>>

(* the user disconnects the wallet (between flows: a running flow keeps the *)
(* address of the render that started it).  The hook now observes the key  *)
(* ['transactions', undefined], which has no data and is not enabled;      *)
(* hasPendingTx is React state and stays; a read in flight is not aborted. *)
Disconnect ==
    /\ ~Falsy(changeAddressBech32)
    /\ ops.pc = "idle"
    /\ changeAddressBech32' = Absent
    /\ query' = [data |-> Absent, fetching |-> query.fetching, invalidated |-> FALSE]
    /\ UNCHANGED <<wallets, transactions, clock, inflight, last, stage,
                   hasPendingTx, ops, parked>>

(* variant of Fetch for a query without enabled: !!wallet *)
Fetch_AnyWallet ==
    /\ ~query.fetching
    /\ query' = [query EXCEPT !.fetching = TRUE, !.invalidated = FALSE]
    /\ UNCHANGED <<wallets, transactions, clock, inflight, last, stage,
                   changeAddressBech32, hasPendingTx, ops, parked>>

(* a read is issued: fetch('/api/escrow/transactions?wallet=...') *)
Fetch ==
    /\ ~Falsy(changeAddressBech32)
    /\ ~query.fetching
    /\ query' = [query EXCEPT !.fetching = TRUE, !.invalidated = FALSE]
    /\ UNCHANGED <<wallets, transactions, clock, inflight, last, stage,
                   changeAddressBech32, hasPendingTx, ops, parked>>

(* enabled: !!wallet - the read on mount *)
QueryMount == query.data = Absent /\ ~query.invalidated /\ Fetch

(* the refetchInterval timer fires *)
QueryInterval ==
    /\ query.data # Absent
    /\ refetchInterval(changeAddressBech32, hasPendingTx) # 0
    /\ Fetch

(* the refetch that invalidateQueries asks for *)
QueryRefetch == query.invalidated /\ Fetch

(* the response of the read arrives: queryFn returns response.json().  A   *)
(* response that arrives while no wallet is connected belongs to a key the *)
(* hook no longer observes: the observed query gets nothing of it.         *)
QueryDone ==
    /\ query.fetching
    /\ IF Falsy(changeAddressBech32)
       THEN query' = [query EXCEPT !.fetching = FALSE]
       ELSE \E list \in getTxsByWallet(transactions, Val(changeAddressBech32)) :
               query' = [query EXCEPT !.data = {list}, !.fetching = FALSE]
    /\ UNCHANGED <<wallets, transactions, clock, inflight, last, stage,
                   changeAddressBech32, hasPendingTx, ops, parked>>

(* the useEffect of usePollingTransactions *)
Effect ==
    /\ ~Falsy(query.data)
    /\ isPending(Val(query.data)) # hasPendingTx
    /\ hasPendingTx' = isPending(Val(query.data))
    /\ UNCHANGED <<wallets, transactions, clock, inflight, last, stage,
                   changeAddressBech32, query, ops, parked>>

(* catch (err) { setError(msg); throw err } finally { setProcessing(null) } *)
Failed(o, at) == [OpsIdle EXCEPT !.error = {"error"}]

(* lockFunds up to its first await: setError(null); setProcessing('lock') *)
lockFunds(adaAmount) ==
    /\ ~Falsy(changeAddressBech32)
    /\ ops.pc = "idle"
    /\ ops' = [processing |-> {"lock"}, error |-> Absent, pc |-> "build",
               kind |-> "lock", txHash |-> Absent, amount |-> adaAmount * 1000000,
               pre |-> "none"]
    /\ UNCHANGED <<wallets, transactions, clock, inflight, last, stage,
                   changeAddressBech32, query, hasPendingTx, parked>>

(* buildLockTransaction: apiPost('lock', ...) and the lock route serving it; *)
(* apiPost throws on a response with error                                  *)
buildLockTransaction ==
    /\ ops.pc = "build" /\ ops.kind = "lock"
    /\ LockRoute(LockBody(changeAddressBech32, {ops.amount}, {"K1"}))
    /\ ops' = IF last'.http = 200 THEN [ops EXCEPT !.pc = "sign"]
              ELSE Failed(ops, "build")
    /\ UNCHANGED <<changeAddressBech32, query, hasPendingTx, parked>>

(* signTransaction: wallet.handler.signTx answers a witness, or nothing, or *)
(* throws when the user rejects                                             *)
signTransaction ==
    /\ ops.pc = "sign"
    /\ \E signed \in BOOLEAN :
          ops' = IF signed THEN [ops EXCEPT !.pc = "submit"] ELSE Failed(ops, "sign")
    /\ UNCHANGED <<wallets, transactions, clock, inflight, last, stage,
                   changeAddressBech32, query, hasPendingTx, parked>>

(* submitLockTransaction and the rest of lockFunds *)
submitLockTransaction ==
    /\ ops.pc = "submit" /\ ops.kind = "lock"
    /\ SubmitRoute(SubmitBody({"cbor"}, {"S1"}, {TX_STATUS.SIGN_LOCK}, Absent))
    /\ IF last'.http = 200
       THEN /\ query' = updateTransaction(query, changeAddressBech32, Val(last'.result),
                                          TX_STATUS.PENDING,
                                          {[amount |-> ops.amount, timestamp |-> clock]},
                                          clock)
            /\ ops' = [OpsIdle EXCEPT !.error = ops.error]
       ELSE /\ query' = query
            /\ ops' = Failed(ops, "submit")
    /\ UNCHANGED <<changeAddressBech32, hasPendingTx, parked>>

(* unlockFunds up to its first await, called by the Unlock button of a row  *)
(* the list shows as confirmed (disabled while that row is processing)      *)
unlockFunds(i) ==
    /\ ~Falsy(changeAddressBech32)
    /\ ops.pc = "idle"
    /\ ~Falsy(query.data)
    /\ i \in 1..Len(Val(query.data))
    /\ Val(query.data)[i].status = TX_STATUS.CONFIRMED
    /\ ops.processing # {Val(query.data)[i].txHash}
    /\ ops' = [processing |-> {Val(query.data)[i].txHash}, error |-> Absent,
               pc |-> "build", kind |-> "unlock",
               txHash |-> {Val(query.data)[i].txHash},
               amount |-> Val(query.data)[i].amount,
               pre |-> StatusOf(transactions, Val(query.data)[i].txHash)]
    /\ UNCHANGED <<wallets, transactions, clock, inflight, last, stage,
                   changeAddressBech32, query, hasPendingTx, parked>>

(* variant of buildUnlockTransaction that goes on to sign whatever the     *)
(* route answered                                                          *)
buildUnlockTransaction_IgnoresError ==
    /\ ops.pc = "build" /\ ops.kind = "unlock"
    /\ UnlockRoute(UnlockBody(ops.txHash, changeAddressBech32, {"K1"}, {ops.amount}))
    /\ ops' = [ops EXCEPT !.pc = "sign"]
    /\ UNCHANGED <<changeAddressBech32, query, hasPendingTx, parked>>

(* buildUnlockTransaction: apiPost('unlock', ...) and the unlock route *)
buildUnlockTransaction ==
    /\ ops.pc = "build" /\ ops.kind = "unlock"
    /\ UnlockRoute(UnlockBody(ops.txHash, changeAddressBech32, {"K1"}, {ops.amount}))
    /\ ops' = IF last'.http = 200 THEN [ops EXCEPT !.pc = "sign"]
              ELSE Failed(ops, "build")
    /\ UNCHANGED <<changeAddressBech32, query, hasPendingTx, parked>>

(* submitSignedTransaction and the rest of unlockFunds *)
submitSignedTransaction ==
    /\ ops.pc = "submit" /\ ops.kind = "unlock"
    /\ SubmitRoute(SubmitBody({"cbor"}, {"S1"}, {TX_STATUS.SIGN_UNLOCK}, ops.txHash))
    /\ IF last'.http = 200
       THEN /\ query' = updateTransaction(query, changeAddressBech32, Val(ops.txHash),
                                          TX_STATUS.UNLOCKED, Absent, clock)
            /\ ops' = [OpsIdle EXCEPT !.error = ops.error]
       ELSE /\ query' = query
            /\ ops' = Failed(ops, "submit")
    /\ UNCHANGED <<changeAddressBech32, hasPendingTx, parked>>

(* Blockfrost reports a transaction of the connected wallet *)
BrowserEvents ==
    {e \in WellFormedEvents :
        EventWallet(e) = {ScenarioWallet} /\ EventAmount(e) = {ScenarioQuantity}}

Blockfrost(event) ==
    /\ WebhookPOST(WebhookBody({<<event>>}), 0)
    /\ UNCHANGED <<changeAddressBech32, query, hasPendingTx, ops, parked>>

(* Unlock flows of one MyTransactions view that overlap.  processing and    *)
(* error are one useState each of the view's useTransactionOperations; a    *)
(* flow is an async call suspended at its awaits, and the Unlock button of  *)
(* a confirmed row is disabled only while processing is that row's txHash.  *)
(* ops holds the flow that takes the next step, parked the suspended ones.  *)

(* the call frame of the flow in ops *)
Frame(o) == [pc |-> o.pc, kind |-> o.kind, txHash |-> o.txHash,
             amount |-> o.amount, pre |-> o.pre]

(* the suspended flow f goes on, with processing and error as they are *)
Resume(o, f) == [o EXCEPT !.pc = f.pc, !.kind = f.kind, !.txHash = f.txHash,
                          !.amount = f.amount, !.pre = f.pre]

(* the user clicks Unlock on a confirmed row whose button is enabled while  *)
(* another unlock flow of the view is suspended at an await                 *)
unlockFundsMeanwhile(i) ==
    /\ ~Falsy(changeAddressBech32)
    /\ ops.pc # "idle" /\ ops.kind = "unlock"
    /\ Cardinality(parked) < MaxParked
    /\ ~Falsy(query.data)
    /\ i \in 1..Len(Val(query.data))
    /\ Val(query.data)[i].status = TX_STATUS.CONFIRMED
    /\ ops.processing # {Val(query.data)[i].txHash}
    /\ parked' = parked \cup {Frame(ops)}
    /\ ops' = [processing |-> {Val(query.data)[i].txHash}, error |-> Absent,
               pc |-> "build", kind |-> "unlock",
               txHash |-> {Val(query.data)[i].txHash},
               amount |-> Val(query.data)[i].amount,
               pre |-> StatusOf(transactions, Val(query.data)[i].txHash)]
    /\ UNCHANGED <<wallets, transactions, clock, inflight, last, stage,
                   changeAddressBech32, query, hasPendingTx>>

(* the await of a suspended flow settles before that of the flow in ops *)
Switch(f) ==
    /\ f \in parked
    /\ parked' = (parked \ {f}) \cup (IF ops.pc = "idle" THEN {} ELSE {Frame(ops)})
    /\ ops' = Resume(ops, f)
    /\ UNCHANGED <<wallets, transactions, clock, inflight, last, stage,
                   changeAddressBech32, query, hasPendingTx>>

----------------------------------------------------------------------------
(* Spec: every request is served from start to end before the next one.    *)
(* No handler reads the store before its await and every handler writes in  *)
(* one synchronous block after it, so these runs visit the same stores as   *)
(* the interleaved ones of SpecAsync.                                       *)
Next ==
    \/ \E body \in LockBodies : LockRoute(body) /\ UNCHANGED browser
    \/ \E body \in UnlockBodies : UnlockRoute(body) /\ UNCHANGED browser
    \/ \E body \in SubmitBodies : SubmitRoute(body) /\ UNCHANGED browser
    \/ \E body \in WebhookBodies, failAt \in 0..MaxBatch :
          WebhookPOST(body, failAt) /\ UNCHANGED browser
    \/ \E wallet \in {Absent} \cup {{w} : w \in Wallets} :
          TransactionsGET(wallet) /\ UNCHANGED browser

Spec == Init /\ [][Next]_vars

(* SpecStorage: the same, where the store can fail between the two writes  *)
(* of a handler                                                             *)
NextStorage ==
    \/ Next
    \/ \E body \in LockBodies, r \in LockResults :
          LockStorageFailure(body, r) /\ UNCHANGED browser
    \/ \E body \in UnlockBodies, r \in UnlockResults :
          UnlockStorageFailure(body, r) /\ UNCHANGED browser

SpecStorage == Init /\ [][NextStorage]_vars

(* SpecEvents: the same as Spec, where Blockfrost also delivers events of   *)
(* transactions with several inputs, outputs and assets                     *)
NextEvents ==
    \/ Next
    \/ \E event \in RichEvents :
          WebhookPOST(WebhookBody({<<event>>}), 0) /\ UNCHANGED browser

SpecEvents == Init /\ [][NextEvents]_vars

(* SpecClock: the same, with time passing between requests *)
NextClock == (Tick /\ UNCHANGED browser) \/ Next

SpecClock == Init /\ [][NextClock]_vars

(* SpecAsync: the route handlers are suspended at their await and resumed   *)
(* in any order; the webhook has no await between its reads and writes.     *)
NextAsync ==
    \/ \E body \in LockBodies : LockPOST(body) /\ UNCHANGED browser
    \/ \E req \in inflight, r \in LockResults :
          LockPOSTResume(req, r) /\ UNCHANGED browser
    \/ \E body \in UnlockBodies : UnlockPOST(body) /\ UNCHANGED browser
    \/ \E req \in inflight, r \in UnlockResults :
          UnlockPOSTResume(req, r) /\ UNCHANGED browser
    \/ \E body \in SubmitBodies : SubmitPOST(body) /\ UNCHANGED browser
    \/ \E req \in inflight, r \in SubmitResults :
          SubmitPOSTResume(req, r) /\ UNCHANGED browser
    \/ \E body \in WebhookBodies, failAt \in 0..MaxBatch :
          WebhookPOST(body, failAt) /\ UNCHANGED browser
    \/ \E wallet \in {Absent} \cup {{w} : w \in Wallets} :
          TransactionsGET(wallet) /\ UNCHANGED browser

SpecAsync == Init /\ [][NextAsync]_vars

(* SpecBrowser: one browser with the wallet ScenarioWallet, the routes it   *)
(* calls, and the webhook deliveries for that wallet                        *)
NextBrowser ==
    \/ Connect
    \/ QueryMount
    \/ QueryInterval
    \/ QueryRefetch
    \/ QueryDone
    \/ Effect
    \/ \E adaAmount \in AdaAmounts : lockFunds(adaAmount)
    \/ buildLockTransaction
    \/ signTransaction
    \/ submitLockTransaction
    \/ \E i \in 1..Cardinality(Hashes) : unlockFunds(i)
    \/ buildUnlockTransaction
    \/ submitSignedTransaction
    \/ \E event \in BrowserEvents : Blockfrost(event)

SpecBrowser == Init /\ [][NextBrowser]_vars

(* SpecWallet: the browser whose wallet can also be disconnected and        *)
(* connected again                                                          *)
NextWallet == NextBrowser \/ Disconnect

SpecWallet == Init /\ [][NextWallet]_vars

(* SpecView: the MyTransactions view of one browser, where the user can    *)
(* click Unlock on a row while the unlock flow of another click is running  *)
NextView ==
    \/ Connect
    \/ QueryMount
    \/ QueryInterval
    \/ QueryRefetch
    \/ QueryDone
    \/ Effect
    \/ \E i \in 1..Cardinality(Hashes) : unlockFunds(i)
    \/ \E i \in 1..Cardinality(Hashes) : unlockFundsMeanwhile(i)
    \/ \E f \in parked : Switch(f)
    \/ buildUnlockTransaction
    \/ signTransaction
    \/ submitSignedTransaction
    \/ \E event \in BrowserEvents : Blockfrost(event)

SpecView == Init /\ [][NextView]_vars

(* SpecBrowserFair: SpecBrowser where a response that is due arrives, a timer *)
(* that is set fires, a refetch that was asked for starts and a pending     *)
(* effect runs                                                              *)
SpecBrowserFair ==
    /\ SpecBrowser
    /\ WF_vars(QueryMount) /\ WF_vars(QueryInterval) /\ WF_vars(QueryRefetch)
    /\ WF_vars(QueryDone) /\ WF_vars(Effect)

----------------------------------------------------------------------------
(* Claims *)

(* lifecycle rank of the specification's status table; no row ranks lowest *)
Rank(status) ==
    CASE status = "none" -> 0 - 1
      [] status = TX_STATUS.SIGN_LOCK -> 0
      [] status = TX_STATUS.PENDING -> 1
      [] status = TX_STATUS.CONFIRMED -> 2
      [] status = TX_STATUS.SIGN_UNLOCK -> 3
      [] status = TX_STATUS.UNLOCKED -> 4

Times == 0..MaxClock

(* C1: monotonicity - in every step the rank of the status stored for each  *)
(* txHash is at least what it was.                                          *)
C1_RankNeverDecreases ==
    [][\A h \in Hashes :
          Rank(StatusOf(transactions, h)) <= Rank(StatusOf(transactions', h))]_vars

(* C2: race of the submit route's PENDING write with the webhook - when the *)
(* webhook for T has finished while a lock submit was suspended at its      *)
(* await, and the submit then resumes with result hash T, T is CONFIRMED    *)
(* once both have finished.                                                 *)
C2_SubmitAfterWebhookKeepsConfirmed ==
    [][\A req \in inflight, r \in SubmitResults :
          (/\ req.route = "submit" /\ req.body.type = {TX_STATUS.SIGN_LOCK}
           /\ ~r.throws
           /\ last.op = "webhook" /\ last.txHash = r.txHash
           /\ SubmitPOSTResume(req, r))
          => StatusOf(transactions', Val(r.txHash)) = TX_STATUS.CONFIRMED]_vars

(* C3: the end-to-end scenario - after lock build and submit T1 is PENDING  *)
(* for W1 with 10000000; after the webhook it is CONFIRMED; after the       *)
(* redelivery it is CONFIRMED in one row; after unlock build and submit it  *)
(* is UNLOCKED; after a late duplicate webhook it is still UNLOCKED.        *)
C3_Scenario ==
    LET row(status) == {[txHash |-> ScenarioTx, wallet |-> ScenarioWallet,
                         amount |-> 10000000, status |-> status]}
        rows == {[txHash |-> r.txHash, wallet |-> r.wallet, amount |-> r.amount,
                  status |-> r.status] : r \in RowsOf(transactions, ScenarioTx)}
    IN /\ stage = 2 => rows = row(TX_STATUS.PENDING)
       /\ stage = 3 => rows = row(TX_STATUS.CONFIRMED)
       /\ stage = 4 => /\ rows = row(TX_STATUS.CONFIRMED)
                       /\ Cardinality(RowsOf(transactions, ScenarioTx)) = 1
       /\ stage = 6 => rows = row(TX_STATUS.UNLOCKED)
       /\ stage = 7 => rows = row(TX_STATUS.UNLOCKED)

(* C4: no regression on replay - after a lock submit whose result hash is a *)
(* txHash that was UNLOCKED, or an unlock build for such a txHash, the      *)
(* txHash is still UNLOCKED.                                                *)
C4_UnlockedSurvivesPendingProposal ==
    (/\ last.op \in {"submitLock", "unlock"}
     /\ last.http = 200
     /\ last.before = TX_STATUS.UNLOCKED)
    => StatusOf(transactions, Val(last.txHash)) = TX_STATUS.UNLOCKED

(* C5: webhook idempotency - from every reachable store, handling a         *)
(* well-formed event twice in a row (in two requests, or twice in one       *)
(* payload) leaves the same wallets and the same rows, timestamps aside, as *)
(* handling it once, with at most one row for each txHash.                  *)
C5_WebhookIdempotent ==
    \A e \in WellFormedEvents : \A t1 \in Times : \A t2 \in t1..MaxClock :
        LET strip(txs) == {[txHash |-> r.txHash, wallet |-> r.wallet,
                            amount |-> r.amount, status |-> r.status] : r \in txs}
            once == WebhookLoop(Db, <<e>>, 1, t1)
            again == WebhookLoop(once, <<e>>, 1, t2)
            batch == WebhookLoop(Db, <<e, e>>, 1, t1)
        IN /\ strip(again.transactions) = strip(once.transactions)
           /\ again.wallets = once.wallets
           /\ batch = once
           /\ \A h \in Hashes : /\ Cardinality(RowsOf(transactions, h)) <= 1
                                /\ Cardinality(RowsOf(again.transactions, h)) <= 1

C5_Redelivered ==
    /\ stage = 4
    /\ last.op = "webhook" /\ last.before = TX_STATUS.CONFIRMED
    /\ StatusOf(transactions, ScenarioTx) = TX_STATUS.CONFIRMED

(* C6: unknown-to-known - a well-formed webhook event for a txHash with no  *)
(* row leaves exactly one row for it, CONFIRMED, with the address of the    *)
(* event's first input and the number its lovelace quantity spells, and the *)
(* wallets table is what it was plus that address.                          *)
C6_UnknownToKnown ==
    \A h \in Hashes, w \in Wallets, q \in Quantities, now \in Times :
        LET e == Event({[hash |-> h]}, <<[address |-> {w}]>>,
                       <<[amount |-> <<[unit |-> "lovelace", quantity |-> q]>>]>>)
            lovelace == IF q = "10000000" THEN 10000000 ELSE 5000000
            db == WebhookLoop(Db, <<e>>, 1, now)
        IN RowsOf(transactions, h) = {}
           => /\ RowsOf(db.transactions, h)
                    = {[txHash |-> h, wallet |-> w, amount |-> lovelace,
                        status |-> "confirmed", timestamp |-> now]}
              /\ db.transactions \ RowsOf(db.transactions, h) = transactions
              /\ db.wallets = wallets \cup {w}

C6_CreatedByWebhook ==
    /\ last.op = "webhook" /\ last.before = "none"
    /\ Cardinality(RowsOf(transactions, Val(last.txHash))) = 1
    /\ StatusOf(transactions, Val(last.txHash)) = TX_STATUS.CONFIRMED

(* C7: amount immutability - a row's amount is the same after every step.   *)
C7_AmountNeverChanges ==
    [][\A r \in transactions :
          \E r2 \in transactions' : r2.txHash = r.txHash /\ r2.amount = r.amount]_vars

(* C8: wallet immutability - a row's wallet is the same after every step,   *)
(* so the row stays in the list of the wallet it was created for.           *)
C8_WalletNeverChanges ==
    [][\A w \in Wallets :
          {r.txHash : r \in getTxsByWalletRows(transactions, w)}
              \subseteq {r.txHash : r \in getTxsByWalletRows(transactions', w)}]_vars

(* C9: lock flow statuses - a successful lock build leaves the built txHash *)
(* at signLock, and a txHash becomes PENDING only in a step of the submit   *)
(* route whose submitter call succeeded.                                    *)
C9_PendingOnlyBySubmit ==
    [][/\ (last'.op = "lock" /\ last'.http = 200)
            => StatusOf(transactions', Val(last'.txHash)) = TX_STATUS.SIGN_LOCK
       /\ \A h \in Hashes :
            (/\ StatusOf(transactions', h) = TX_STATUS.PENDING
             /\ StatusOf(transactions, h) # TX_STATUS.PENDING)
            => (last'.op = "submitLock" /\ last'.http = 200 /\ last'.txHash = {h})]_vars

(* C10: unlock submit targets the original record - for a record T and a    *)
(* successful submit of type UNLOCK with originalTxHash T that returns      *)
(* another hash U, T becomes UNLOCKED with its wallet and amount kept, the  *)
(* rows of U and the wallets table are what they were, and the response     *)
(* carries U.                                                               *)
C10_UnlockSubmitTargetsOriginal ==
    \A T \in Hashes, U \in Hashes, now \in Times :
        LET body == SubmitBody({"cbor"}, {"S1"}, {"signUnlock"}, {T})
            result == SubmitResult({U}, FALSE)
            db == SubmitWrites(Db, body, result, now)
        IN (RowsOf(transactions, T) # {} /\ U # T)
           => /\ ~SubmitInvalid(body)
              /\ RowsOf(db.transactions, T)
                    = {[r EXCEPT !.status = "unlocked", !.timestamp = now]
                          : r \in RowsOf(transactions, T)}
              /\ RowsOf(db.transactions, U) = RowsOf(transactions, U)
              /\ db.wallets = wallets
              /\ SubmitResponse(result) = {U}

C10_UnlockSubmitted ==
    /\ last.op = "submitUnlock" /\ last.http = 200
    /\ last.before # "none"
    /\ last.result # last.txHash /\ last.result # Absent
    /\ StatusOf(transactions, Val(last.txHash)) = TX_STATUS.UNLOCKED

(* C11: sign failure keeps the pre-flow status - when an unlock flow for a  *)
(* transaction that was confirmed in the store when the flow started has    *)
(* built and then fails at signTransaction, the stored status of that       *)
(* transaction at the end of the flow is confirmed.                         *)
C11_SignFailureKeepsStatus ==
    [][(/\ ops.pc = "sign" /\ ops.kind = "unlock" /\ ops.pre = "confirmed"
        /\ ops'.pc = "idle")
       => StatusOf(transactions', Val(ops.txHash)) = "confirmed"]_vars

(* C12: build failure writes nothing - when the builder answers with an     *)
(* error, answers without a complete transaction, or throws, the lock route *)
(* and the unlock route answer with an error (500) and leave the wallets    *)
(* and transactions tables as they were.                                    *)
C12_BuildFailureWritesNothing ==
    [][/\ last'.op = "lock" => \A body \in LockBodies, r \in LockResults :
            (/\ body.changeAddress # Absent /\ body.amount # Absent
             /\ body.ownerKeyHash # Absent
             /\ (r.throws \/ r.error # Absent \/ r.complete = Absent)
             /\ LockAfterAwait(body, r))
            => (last' = Reply("lock", 500) /\ UNCHANGED <<wallets, transactions>>)
       /\ last'.op = "unlock" => \A body \in UnlockBodies, r \in UnlockResults :
            (/\ body.txHash # Absent /\ body.changeAddress # Absent
             /\ body.amount # Absent /\ body.ownerKeyHash # Absent
             /\ (r.throws \/ r.error # Absent \/ r.complete = Absent)
             /\ UnlockAfterAwait(body, r))
            => (last' = Reply("unlock", 500) /\ UNCHANGED <<wallets, transactions>>)]_vars

C12_BuildFailed ==
    /\ last.op \in {"lock", "unlock"} /\ last.http = 500
    /\ transactions # {}

(* C13: submit failure does not advance status - when the submitter throws  *)
(* inside the submit route, for type signLock or signUnlock, the route      *)
(* answers with an error (500) and the store is as it was.                  *)
C13_SubmitFailureWritesNothing ==
    [][\A body \in SubmitBodies, r \in SubmitResults :
          (/\ body.complete # Absent /\ body.signature # Absent
           /\ \/ body.type = {"signLock"}
              \/ body.type = {"signUnlock"} /\ body.originalTxHash # Absent
           /\ r.throws
           /\ SubmitAfterAwait(body, r))
          => (last' = Reply("submit", 500) /\ UNCHANGED <<wallets, transactions>>)]_vars

C13_SubmitFailed ==
    /\ last = Reply("submit", 500)
    /\ \E r \in transactions : r.status \in {"signLock", "pending", "confirmed"}

(* C14: validation errors mutate nothing - a lock, unlock or submit request *)
(* with a missing field (or a submit type that is neither signLock nor      *)
(* signUnlock, or signUnlock without originalTxHash) and a read without     *)
(* wallet are answered 400, the answer of the return that precedes the      *)
(* await of the builder or submitter, and leave the store as it was.        *)
C14_ValidationErrorsMutateNothing ==
    [][/\ \A body \in LockBodies :
            (/\ (body.changeAddress = Absent \/ body.amount = Absent
                    \/ body.ownerKeyHash = Absent)
             /\ LockRoute(body))
            => (last' = Reply("lock", 400) /\ UNCHANGED <<wallets, transactions>>)
       /\ \A body \in UnlockBodies :
            (/\ (body.txHash = Absent \/ body.changeAddress = Absent
                    \/ body.ownerKeyHash = Absent \/ body.amount = Absent)
             /\ UnlockRoute(body))
            => (last' = Reply("unlock", 400) /\ UNCHANGED <<wallets, transactions>>)
       /\ \A body \in SubmitBodies :
            (/\ (body.complete = Absent \/ body.signature = Absent
                    \/ body.type \notin {{"signLock"}, {"signUnlock"}}
                    \/ (body.type = {"signUnlock"} /\ body.originalTxHash = Absent))
             /\ SubmitRoute(body))
            => (last' = Reply("submit", 400) /\ UNCHANGED <<wallets, transactions>>)
       /\ TransactionsGET(Absent)
            => (last' = Reply("transactions", 400)
                    /\ UNCHANGED <<wallets, transactions>>)]_vars

C14_Rejected ==
    /\ last.http = 400 /\ last.op \in {"lock", "unlock", "submit", "transactions"}
    /\ transactions # {}

(* C15: unknown transaction is rejected - a submit whose status update      *)
(* addresses a txHash with no row creates no row and is not answered as a   *)
(* success.                                                                 *)
C15_UnknownTransactionRejected ==
    (last.op \in {"submitLock", "submitUnlock"} /\ last.before = "none")
    => (last.http # 200 /\ RowsOf(transactions, Val(last.txHash)) = {})

(* C16: malformed webhook events are skipped without aborting the batch -   *)
(* from every reachable store, an event without wallet, amount or tx writes *)
(* nothing, and a well-formed event after it in the batch is applied as if  *)
(* it were alone.                                                           *)
C16_MalformedEventSkipped ==
    \A bad \in MalformedEvents, e \in WellFormedEvents, now \in Times :
        /\ WebhookLoop(Db, <<bad>>, 1, now) = Db
        /\ WebhookLoop(Db, <<bad, e>>, 1, now) = WebhookLoop(Db, <<e>>, 1, now)

(* C17: per-event storage failure isolation - from every reachable store,   *)
(* when the transaction write of the first event of a batch fails, the      *)
(* second event of the batch is still applied: its txHash has the row it    *)
(* gets when the event is processed alone.                                  *)
C17_StorageFailureIsolated ==
    \A e1 \in WellFormedEvents, e2 \in WellFormedEvents, now \in Times :
        LET run == WebhookFor(Db, <<e1, e2>>, 1, now, 1)
            alone == WebhookLoop(Db, <<e2>>, 1, now)
        IN RowsOf(run.transactions, Val(e2.tx).hash)
              = RowsOf(alone.transactions, Val(e2.tx).hash)

(* C18: the webhook endpoint always answers success - for every body (a     *)
(* batch, a batch with malformed events, a body that cannot be parsed, a    *)
(* storage failure while processing) the response is 200.                   *)
C18_WebhookAlwaysOk ==
    last.op = "webhook" => last.http = 200

C18_AckedAfterStorageFailure ==
    /\ last = Reply("webhook", 200)
    /\ wallets # {} /\ transactions = {}

(* a read is issued in this step *)
ReadIssued == query'.fetching /\ ~query.fetching

(* the fetched list is there and holds a pending transaction, or none *)
ShowsPending ==
    /\ query.data # Absent
    /\ \E i \in 1..Len(Val(query.data)) : Val(query.data)[i].status = "pending"

ShowsNoPending ==
    /\ query.data # Absent
    /\ \A i \in 1..Len(Val(query.data)) : Val(query.data)[i].status # "pending"

(* C19: polling convergence - with a wallet connected and a pending         *)
(* transaction in the fetched list, hasPendingTx becomes true and reads     *)
(* keep being issued; a read issued by the interval timer (the list is      *)
(* there and nothing invalidated it) happens only while hasPendingTx is     *)
(* true; every evaluation of the effect sets hasPendingTx to whether the    *)
(* list holds a pending transaction; and once the list holds none,          *)
(* hasPendingTx becomes false.                                              *)
C19_PollingConverges ==
    /\ [][(ReadIssued /\ query.data # Absent /\ ~query.invalidated)
             => (hasPendingTx /\ changeAddressBech32 # Absent)]_vars
    /\ [][hasPendingTx' # hasPendingTx
             => (IF hasPendingTx' THEN ShowsPending ELSE ShowsNoPending)]_vars
    /\ [](ShowsPending => <>(query.fetching \/ ShowsNoPending))
    /\ []((ShowsNoPending /\ hasPendingTx) => <>(~hasPendingTx \/ ShowsPending))

C19_PollingStopped ==
    /\ ~hasPendingTx /\ ~query.fetching /\ ~query.invalidated
    /\ query.data # Absent /\ Len(Val(query.data)) > 0
    /\ \A i \in 1..Len(Val(query.data)) : Val(query.data)[i].status = "confirmed"
    /\ StatusOf(transactions, Val(query.data)[1].txHash) = "confirmed"
    /\ last.op = "webhook" /\ last.before = "pending"

C21_WalletScopedRead ==
    \A w \in Wallets :
        LET mine == {r \in transactions : r.wallet = w}
        IN /\ TransactionsResponse(transactions, {w}) = [http |-> 200, rows |-> mine]
           /\ getTxsByWallet(transactions, w) # {}
           /\ \A list \in getTxsByWallet(transactions, w) :
                 /\ Len(list) = Cardinality(mine)
                 /\ {list[i] : i \in 1..Len(list)} = mine
                 /\ \A i \in 1..Len(list) - 1 :
                       list[i].timestamp >= list[i + 1].timestamp

C21_ReadTwoOfOneWallet ==
    /\ last = Reply("transactions", 200)
    /\ \E r1 \in transactions, r2 \in transactions :
          r1.wallet = r2.wallet /\ r1.timestamp < r2.timestamp

(* C22: only confirmed transactions can be unlocked - after an unlock build *)
(* or an unlock submit that the route accepted for a txHash that was not    *)
(* CONFIRMED (absent, signLock, pending or unlocked), the status stored for *)
(* that txHash is what it was.                                              *)
C22_OnlyConfirmedUnlocked ==
    (/\ last.op \in {"unlock", "submitUnlock"}
     /\ last.http = 200
     /\ last.before # TX_STATUS.CONFIRMED)
    => StatusOf(transactions, Val(last.txHash)) = last.before

(* C23: ownership validation on unlock - an unlock request for a txHash     *)
(* whose row has another wallet than the request's changeAddress leaves     *)
(* that row as it was, so the txHash stays in the list of the wallet that   *)
(* locked it.                                                               *)
C23_UnlockByOwnerOnly ==
    [][last'.op = "unlock" => \A body \in UnlockBodies :
          (/\ ~UnlockInvalid(body)
           /\ \E r \in RowsOf(transactions, Val(body.txHash)) :
                 r.wallet # Val(body.changeAddress)
           /\ UnlockRoute(body))
          => RowsOf(transactions', Val(body.txHash))
                = RowsOf(transactions, Val(body.txHash))]_vars

(* C24: CONFIRMED comes only from the webhook - every step that leaves a    *)
(* row with status CONFIRMED that was not there before (a new row, a status *)
(* change, or a rewrite at another time) is a step of the webhook, and the  *)
(* statuses the lock, unlock and submit routes write are never CONFIRMED.   *)
C24_ConfirmedOnlyByWebhook ==
    /\ [][\A r \in transactions' :
            (r.status = TX_STATUS.CONFIRMED /\ r \notin transactions)
            => last'.op = "webhook"]_vars
    /\ [][last'.op \in {"lock", "unlock", "submitLock", "submitUnlock"}
            => \A h \in Hashes :
                  StatusOf(transactions', h) = TX_STATUS.CONFIRMED
                  => RowsOf(transactions', h) = RowsOf(transactions, h)]_vars

C24_ConfirmedByWebhook ==
    /\ last.op = "webhook" /\ last.before = TX_STATUS.PENDING
    /\ \E r \in RowsOf(transactions, Val(last.txHash)) :
          r.status = TX_STATUS.CONFIRMED /\ r.timestamp = MaxClock

(* C25: no orphaned transaction - in every reachable store, the stores left *)
(* by a lock route, an unlock route or a webhook that stopped between its   *)
(* wallet write and its transaction write included, the wallet of every     *)
(* row is in the wallets table.                                             *)
C25_NoOrphanedTransaction ==
    \A r \in transactions : r.wallet \in wallets

C25_StoppedBetweenWrites ==
    /\ last.op \in {"lock", "unlock"} /\ last.http = 500
    /\ last.txHash # Absent /\ RowsOf(transactions, Val(last.txHash)) = {}
    /\ transactions # {}
    /\ \E w \in wallets : \A r \in transactions : r.wallet # w

(* C26: polling stops on disconnect - no read is issued while no wallet is  *)
(* connected; the interval is off then, whatever hasPendingTx is; and the   *)
(* response of a read that was in flight at the disconnect leaves the       *)
(* observed list empty and hasPendingTx as it was, so it starts no reads.   *)
C26_NoPollingWhileDisconnected ==
    /\ [][ReadIssued => (changeAddressBech32 # Absent /\ changeAddressBech32' # Absent)]_vars
    /\ [](changeAddressBech32 = Absent
             => /\ refetchInterval(changeAddressBech32, hasPendingTx) = 0
                /\ query.data = Absent /\ ~query.invalidated)
    /\ [][(changeAddressBech32 = Absent /\ query.fetching /\ ~query'.fetching)
             => /\ hasPendingTx' = hasPendingTx
                /\ query'.data = Absent
                /\ changeAddressBech32' = Absent]_vars

C26_ReadInFlightAtDisconnect ==
    /\ changeAddressBech32 = Absent
    /\ hasPendingTx /\ query.fetching
    /\ \E r \in transactions : r.status = TX_STATUS.PENDING /\ r.wallet = ScenarioWallet

(* C27: a redundant proposal is a true no-op - when the webhook delivers    *)
(* CONFIRMED again for a row that is CONFIRMED with the same wallet and     *)
(* amount, every field of the row, its timestamp included, is what it was,  *)
(* so its place in the wallet's list is what it was.                        *)
C27_RedundantProposalIsNoOp ==
    [][last'.op = "webhook" =>
          \A r \in transactions, r2 \in transactions' :
             (/\ {r.txHash} = last'.txHash /\ r2.txHash = r.txHash
              /\ r.status = TX_STATUS.CONFIRMED /\ r2.status = TX_STATUS.CONFIRMED
              /\ r2.wallet = r.wallet /\ r2.amount = r.amount)
             => r2.timestamp = r.timestamp]_vars

(* C28: independence across keys - in every interleaving of the handlers, a *)
(* step of the lock, unlock or submit route leaves the rows of every txHash *)
(* other than the one it writes as they were, and from every reachable      *)
(* store a webhook event leaves the rows of every txHash other than its own *)
(* as they were.                                                            *)
C28_OtherKeysUntouched ==
    /\ [][last'.op \in {"lock", "unlock", "submit", "submitLock", "submitUnlock",
                        "transactions"}
            => \A B \in Hashes :
                  last'.txHash # {B}
                  => RowsOf(transactions', B) = RowsOf(transactions, B)]_vars
    /\ [](\A e \in WellFormedEvents, B \in Hashes, now \in Times :
             B # Val(e.tx).hash
             => RowsOf(WebhookLoop(Db, <<e>>, 1, now).transactions, B)
                   = RowsOf(transactions, B))

C28_WroteOneOfTwo ==
    /\ inflight # {}
    /\ last.op = "submitUnlock" /\ last.http = 200
    /\ last.before = TX_STATUS.CONFIRMED
    /\ StatusOf(transactions, Val(last.txHash)) = TX_STATUS.UNLOCKED
    /\ \E r \in transactions :
          {r.txHash} # last.txHash /\ r.status = TX_STATUS.CONFIRMED

(* C29: unlock build status - after a successful unlock build for a txHash  *)
(* that was CONFIRMED, the status stored for it is signUnlock.              *)
C29_UnlockBuildWritesSignUnlock ==
    (/\ last.op = "unlock" /\ last.http = 200
     /\ last.before = TX_STATUS.CONFIRMED)
    => StatusOf(transactions, Val(last.txHash)) = TX_STATUS.SIGN_UNLOCK

(* the status the cached list shows for a txHash ("none": not in the list) *)
Shown(q, txHash) ==
    IF Falsy(q.data) \/ ~\E i \in 1..Len(Val(q.data)) : Val(q.data)[i].txHash = txHash
    THEN "none"
    ELSE LET list == Val(q.data)
         IN list[CHOOSE i \in 1..Len(list) : list[i].txHash = txHash].status

(* C30: client-visible consistency after failure - when an unlock flow      *)
(* started from the list fails at Build, Sign or Submit, the status the     *)
(* cached list shows for its transaction is the status stored for it, and   *)
(* that is the status it had in the store when the flow started.            *)
C30_ConsistentAfterFailure ==
    [][(/\ ops.kind = "unlock" /\ ops.pc \in {"build", "sign", "submit"}
        /\ ops'.pc = "idle" /\ ops'.error # Absent)
       => /\ Shown(query', Val(ops.txHash)) = StatusOf(transactions', Val(ops.txHash))
          /\ StatusOf(transactions', Val(ops.txHash)) = ops.pre]_vars

(* C31: client flow ordering - in lockFunds and unlockFunds, Sign starts    *)
(* only in the step in which the Build request was answered 200 with a      *)
(* complete transaction; Submit starts only from Sign; the submit route is  *)
(* requested only by a flow that is at Submit; the cached list is set and   *)
(* the query invalidated only in the step in which the submit was answered  *)
(* 200 (PENDING for a lock, UNLOCKED for an unlock); and a step that fails  *)
(* ends the flow and leaves the query as it was.                            *)
C31_BuildSignSubmit ==
    /\ [][(ops'.pc = "sign" /\ ops.pc # "sign")
             => /\ ops.pc = "build"
                /\ last'.op = ops.kind /\ last'.http = 200]_vars
    /\ [][(ops'.pc = "submit" /\ ops.pc # "submit") => ops.pc = "sign"]_vars
    /\ [][(last' # last /\ last'.op \in {"submit", "submitLock", "submitUnlock"})
             => ops.pc = "submit"]_vars
    /\ [][(query'.invalidated /\ ~query.invalidated)
             => /\ ops.pc = "submit" /\ ops'.pc = "idle" /\ ops'.error = Absent
                /\ last'.http = 200
                /\ last'.op = (IF ops.kind = "lock" THEN "submitLock" ELSE "submitUnlock")
                /\ IF ops.kind = "lock"
                   THEN Shown(query', Val(last'.result))
                           = (IF query.data = Absent THEN "none" ELSE "pending")
                   ELSE Shown(query', Val(ops.txHash)) = "unlocked"]_vars
    /\ [][(ops.pc \in {"build", "sign", "submit"} /\ ops'.error # Absent)
             => (ops'.pc = "idle" /\ query' = query)]_vars

C31_UnlockedAfterSubmit ==
    /\ ops.pc = "idle" /\ ops.error = Absent
    /\ last.op = "submitUnlock" /\ last.http = 200 /\ last.before = TX_STATUS.PENDING
    /\ query.invalidated
    /\ Shown(query, Val(last.txHash)) = TX_STATUS.UNLOCKED

(* the row written last: the key of the last handler step that wrote *)
WrittenLast ==
    IF last.http = 200 /\ last.txHash # Absent
    THEN RowsOf(transactions, Val(last.txHash)) ELSE {}

(* C32 as stated: every write stamps the current time, a row's timestamp    *)
(* never decreases, and the row written last is the first of every list     *)
(* getTxsByWallet can return for its wallet.                                *)
C32_WrittenLastIsFirst ==
    \A r \in WrittenLast :
        \A list \in getTxsByWallet(transactions, r.wallet) : list[1] = r

(* C32, amended: in every step that writes a row (insert, replace, status   *)
(* update) the timestamp of that row is the time of the step; a row's       *)
(* timestamp never decreases; and no row of its wallet has a later          *)
(* timestamp than the row written last, so that row is first in the list    *)
(* of its wallet up to the order of rows of the same timestamp.             *)
C32_WritesStampCurrentTime ==
    /\ [][(clock' = clock /\ last'.http = 200 /\ last'.txHash # Absent)
             => \A r \in RowsOf(transactions', Val(last'.txHash)) :
                   r.timestamp = clock]_vars
    /\ [][\A r \in transactions, r2 \in transactions' :
             r2.txHash = r.txHash => r2.timestamp >= r.timestamp]_vars
    /\ [](\A r \in WrittenLast :
             /\ \A o \in getTxsByWalletRows(transactions, r.wallet) :
                   o.timestamp <= r.timestamp
             /\ \E list \in getTxsByWallet(transactions, r.wallet) : list[1] = r)

C32_LaterWriteFirst ==
    /\ last.op = "submitUnlock" /\ last.before = TX_STATUS.PENDING
    /\ \E r \in WrittenLast :
          /\ r.timestamp = MaxClock
          /\ \E o \in getTxsByWalletRows(transactions, r.wallet) : o.timestamp < r.timestamp

(* C33: records are never deleted - in every step, storage failures         *)
(* included, every txHash of the transactions table and every address of    *)
(* the wallets table is still there afterwards, and upsertWallet of an      *)
(* address the table holds leaves the table as it is.                       *)
C33_NeverDeleted ==
    /\ [][/\ {r.txHash : r \in transactions} \subseteq {r.txHash : r \in transactions'}
          /\ wallets \subseteq wallets']_vars
    /\ [](\A w \in wallets : upsertWallet(wallets, w) = wallets)

C33_ReplacedInPlace ==
    /\ last.op = "unlock" /\ last.http = 200 /\ last.before = TX_STATUS.UNLOCKED
    /\ {r.txHash : r \in transactions} = Hashes
    /\ \E r1 \in transactions, r2 \in transactions :
          r1.txHash # r2.txHash /\ r1.wallet = r2.wallet
    /\ wallets = Wallets

(* C34: the webhook takes the wallet of an event from the address of its    *)
(* first input and the amount from the lovelace quantity of its first       *)
(* output - the row it writes carries these two, and the second input, the  *)
(* second output and the other entries of the first output's amount change  *)
(* nothing in either table.                                                 *)
C34_FirstInputFirstOutput ==
    \A h \in Hashes, first \in Wallets, second \in Wallets, q \in Quantities :
        LET event == RichEvent(h, first, second, q)
            plain == Event({[hash |-> h]}, <<[address |-> {first}]>>,
                           <<[amount |-> <<[unit |-> "lovelace",
                                            quantity |-> "7000000"]>>]>>)
            out == WebhookLoop(Db, <<event>>, 1, clock)
        IN /\ EventWallet(event) = {first}
           /\ EventAmount(event) = {"7000000"}
           /\ RowsOf(out.transactions, h) =
                 {[txHash |-> h, wallet |-> first, amount |-> 7000000,
                   status |-> TX_STATUS.CONFIRMED, timestamp |-> clock]}
           /\ out.wallets = wallets \cup {first}
           /\ out = WebhookLoop(Db, <<plain>>, 1, clock)

C34_SecondInputNotStored ==
    /\ last.op = "webhook" /\ last.txHash = {"T1"}
    /\ \E r \in transactions : /\ r.txHash = "T1" /\ r.wallet = "W1"
                               /\ r.amount = 7000000
                               /\ r.status = TX_STATUS.CONFIRMED
    /\ wallets = {"W1"}
    /\ \A r \in transactions : r.amount = 7000000

(* the unlock flow of a confirmed row has failed at Sign after its Build    *)
(* succeeded, no flow was started and no webhook event arrived since, and   *)
(* no other row of the store is pending                                     *)
SignRejected ==
    /\ ops.pc = "idle" /\ ops.error # Absent
    /\ last.op = "unlock" /\ last.http = 200
    /\ last.before = TX_STATUS.CONFIRMED
    /\ \A r \in transactions :
          r.status = TX_STATUS.PENDING => {r.txHash} = last.txHash

(* C35: polling stops without outside help - in a run where an unlock flow  *)
(* fails at Sign after its Build succeeded, and from then on the user does  *)
(* nothing and no webhook event arrives, hasPendingTx is eventually false   *)
(* for good and no read is issued any more.                                 *)
C35_PollingStops ==
    <>[]SignRejected => <>[](~hasPendingTx /\ ~query.fetching)

(* the unlock flows of the view that have started and not ended *)
InFlight(txHash) ==
    \/ ops.pc # "idle" /\ ops.kind = "unlock" /\ ops.txHash = {txHash}
    \/ \E f \in parked : f.txHash = {txHash}

(* C36: at most one unlock in flight per transaction per view - a step that *)
(* starts an unlock flow for a txHash is taken only while no unlock flow    *)
(* of the view for that txHash is in flight, whatever flows for other       *)
(* txHashes started or ended in between.                                    *)
C36_OneUnlockPerTransaction ==
    [][\A txHash \in Hashes :
          (/\ ops'.pc = "build" /\ ops'.txHash = {txHash}
           /\ ops' # ops /\ parked \subseteq parked')
             => ~InFlight(txHash)]_vars

(* C37: the processing flag is always released - a call of unlockFunds      *)
(* with a connected address sets processing to its txHash and clears       *)
(* error; the step that ends the call, at success or at a failure of       *)
(* Build, Sign or Submit, leaves processing null, and error non-null        *)
(* exactly when the call failed.                                            *)
C37_ReleasedAndErrorIffFailed ==
    [][/\ (ops'.pc = "build" /\ ops' # ops /\ parked \subseteq parked')
             => ops'.processing = ops'.txHash /\ ops'.error = Absent
       /\ (ops.pc # "idle" /\ ops'.pc = "idle")
             => /\ ops'.processing = Absent
                /\ ops'.error # Absent
                      <=> ~(ops.pc = "submit" /\ last'.http = 200)]_vars

(* the txHashes of a cached list are pairwise distinct *)
DistinctTxHashes(list) ==
    \A i \in 1..Len(list), j \in 1..Len(list) :
        list[i].txHash = list[j].txHash => i = j

(* the third argument of updateTransaction: nothing, or amount and timestamp *)
NewTransactions ==
    {Absent} \cup {{[amount |-> a, timestamp |-> t]} : a \in Amounts, t \in 0..MaxClock}

(* C38: the optimistic cache update keeps the list well-formed - the cached *)
(* list has pairwise distinct txHashes, and for every txHash, status and    *)
(* optional new transaction the updated list has pairwise distinct          *)
(* txHashes; an entry of the txHash has only its status replaced, a txHash  *)
(* the list does not hold is prepended only when a new transaction is       *)
(* given, every other entry is as it was; with no wallet the update does    *)
(* nothing.                                                                 *)
C38_CacheUpdateWellFormed ==
    /\ \A txHash \in Hashes, newStatus \in TransactionStatus,
          newTransaction \in NewTransactions :
          updateTransaction(query, Absent, txHash, newStatus, newTransaction, clock)
             = query
    /\ query.data # Absent =>
          LET old == Val(query.data)
          IN /\ DistinctTxHashes(old)
             /\ \A txHash \in Hashes, newStatus \in TransactionStatus,
                   newTransaction \in NewTransactions :
                   LET q == updateTransaction(query, {ScenarioWallet}, txHash,
                                              newStatus, newTransaction, clock)
                       new == Val(q.data)
                       present == \E i \in 1..Len(old) : old[i].txHash = txHash
                       k == Len(new) - Len(old)
                   IN /\ DistinctTxHashes(new)
                      /\ k = IF ~present /\ newTransaction # Absent THEN 1 ELSE 0
                      /\ \A i \in 1..Len(old) :
                            new[i + k] = IF old[i].txHash = txHash
                                         THEN [old[i] EXCEPT !.status = newStatus]
                                         ELSE old[i]
                      /\ k = 1 =>
                            /\ new[1].txHash = txHash /\ new[1].status = newStatus
                            /\ new[1].wallet = ScenarioWallet
                            /\ new[1].amount = Val(newTransaction).amount

C38_PrependedToShownList ==
    /\ ops.pc = "idle" /\ last.op = "submitLock" /\ last.http = 200
    /\ query.invalidated /\ ~query.fetching
    /\ query.data # Absent /\ Len(Val(query.data)) = 2
    /\ Val(query.data)[1].txHash = Val(last.result)
    /\ Val(query.data)[1].status = TX_STATUS.PENDING
    /\ Val(query.data)[2].status = TX_STATUS.CONFIRMED
====
